---- MODULE Spec2Model ----
(***************************************************************************)
(* Alice/Bob secure-channel bootstrap (Diffie-Hellman handshake, XOR       *)
(* cipher, level toggle) of src/unnamed/part_000, as a state machine.      *)
(*                                                                         *)
(* Two devices run the same sketch: "alice" (isAlice = TRUE, Initiator)    *)
(* and "bob" (isAlice = FALSE, Responder).  Each device's Serial1 receive  *)
(* side is a FIFO of lines; a line is the sequence of its bytes (ASCII     *)
(* codes) as readStringUntil('\n') returns it.  One iteration of loop() is *)
(* three consecutive steps of a device: the toggle block, onReceive, run.  *)
(*                                                                         *)
(* Spec is the two devices on a reliable FIFO link, SpecSession the same   *)
(* with at most one toggle per device (SpecSessionFair with loop() called  *)
(* forever, SpecPair with room for BKEY and the scripted pair together),   *)
(* SpecLate the same with a bounded number of toggles, SpecLossy with one  *)
(* handshake frame lost after the toggles.  SpecDevice                     *)
(* is one device alone on a link whose far end sends any line of           *)
(* InjectLines; SpecMalformed and SpecSteady are the same with malformed   *)
(* frames and with a longer clock.  SpecCipher and SpecModExp apply the    *)
(* cipher and modExp on their own to drawn arguments.                      *)
(***************************************************************************)
EXTENDS Integers, Sequences, FiniteSets, TLC

VARIABLES
  level,        \* level[d]   : LevelManager::currentLevel
  dh,           \* dh[d]      : the fields of the global DiffieHellmanManager
  agent,        \* agent[d]   : the fields of the Alice / Bob object
  pc,           \* pc[d]      : position of the device inside loop()
  inbox,        \* inbox[d]   : lines waiting in the Serial1 receive buffer of d
  shown,        \* shown[d]   : lines displayMessage() drew in d's latest step
  got,          \* got[d]     : the line d's latest step read from Serial1, if any
  now,          \* millis()
  charSigned,   \* whether plain `char` is signed on the build (AVR) or not (ARM)
  divZero,      \* what the build makes of a % 0: "zero", "dividend" or "trap"
  calc,         \* a function of the program applied on its own: arguments and result
  toggleCount,  \* history: toggles of d so far, saturating at 2
  trail,        \* history: handshake states d went through since its last toggle
  log,          \* history: the payload lines run() of d printed since its agent was created
  lost,         \* history kept by the link: the frame it lost, the presses before that
  missed        \* history: the Responder displayed the Initiator's current PG as text

vars == <<level, dh, agent, pc, inbox, shown, got, now, charSigned, divZero, calc,
          toggleCount, trail, log, lost, missed>>

(***************************************************************************)
(* Bounds of the model                                                     *)
(***************************************************************************)
MaxQueue == 2        \* lines a receive buffer holds; a sender waits for room
MaxTicks == 1        \* clock readings after boot, ClockStep ms apart
NumKeys == 2         \* how many outcomes of random() are explored

ClockStep == 5000    \* granularity of the clock readings, in ms
BootMillis == 250 + 1000 + 1000   \* the delays of setup() before the first loop()
KeyChoices == {7 + 4 * i : i \in 0 .. NumKeys - 1}

(***************************************************************************)
(* Program constants                                                       *)
(***************************************************************************)
sendInterval == 5000
LEVEL0 == 0
LEVEL1 == 1
LEVEL2 == 2

IDLE == "IDLE"
SENT_PG == "SENT_PG"
RECEIVED_ACK == "RECEIVED_ACK"
SENT_A_PREKEY == "SENT_A_PREKEY"
RECEIVED_B_PREKEY == "RECEIVED_B_PREKEY"

DH_P == 2089
DH_G == 2

Dev == {"alice", "bob"}
IsAlice(d) == d = "alice"
Peer(d) == IF d = "alice" THEN "bob" ELSE "alice"

(***************************************************************************)
(* String literals of the sketch, as bytes                                 *)
(***************************************************************************)
STR_PG == <<80, 71, 58>>                  \* "PG:"
STR_ACK == <<65, 67, 75>>                 \* "ACK"
STR_AKEY == <<65, 75, 69, 89, 58>>        \* "AKEY:"
STR_BKEY == <<66, 75, 69, 89, 58>>        \* "BKEY:"
STR_RECV == <<82, 101, 99, 118, 58, 32>>  \* "Recv: "
STR_SENT == <<83, 101, 110, 116, 58, 32>> \* "Sent: "
STR_NOKEY == <<83, 104, 97, 114, 101, 100, 32, 107, 101, 121, 32, 110, 111, 116,
               32, 97, 118, 97, 105, 108, 97, 98, 108, 101>>  \* "Shared key not available"
STR_MESSAGE == <<77, 101, 115, 115, 97, 103, 101, 32>>        \* "Message "
STR_PLAIN1 == <<80, 108, 97, 105, 110, 95, 77, 101, 115, 115, 97, 103, 101, 95, 49>>
STR_ENC2 == <<69, 110, 99, 95, 77, 101, 115, 115, 97, 103, 101, 95, 50>>
STR_ENC1 == <<69, 110, 99, 95, 77, 101, 115, 115, 97, 103, 101, 95, 49>>
STR_PLAIN2 == <<80, 108, 97, 105, 110, 95, 77, 101, 115, 115, 97, 103, 101, 95, 50>>
STR_NEW == <<78, 101, 119, 32>>           \* "New "
STR_REP == <<82, 101, 112, 32>>           \* "Rep "
CH_COMMA == 44
CH_SPACE == 32
CH_MINUS == 45
CH_PLUS == 43
CH_ZERO == 48
CH_CR == 13

(***************************************************************************)
(* Arduino String operations                                               *)
(***************************************************************************)
UINT_MAX == 65535   \* of a 16-bit unsigned int; any width gives the same results here

\* conversion of an int argument to an unsigned int parameter
ToUnsigned(i) == IF i < 0 THEN i + UINT_MAX + 1 ELSE i

startsWith(s, prefix) ==
  /\ Len(s) >= Len(prefix)
  /\ SubSeq(s, 1, Len(prefix)) = prefix

\* String::indexOf(ch, fromIndex): 0-based index of the first ch at or after
\* fromIndex, -1 when there is none
RECURSIVE indexOf(_, _, _)
indexOf(s, ch, fromIndex) ==
  IF fromIndex >= Len(s) THEN -1
  ELSE IF s[fromIndex + 1] = ch THEN fromIndex
  ELSE indexOf(s, ch, fromIndex + 1)

\* String::substring(left, right), both parameters unsigned: swaps them when
\* left > right, empty when left >= length, right clamped to the length
substring(s, leftArg, rightArg) ==
  LET l0 == ToUnsigned(leftArg)
      r0 == ToUnsigned(rightArg)
      left == IF l0 > r0 THEN r0 ELSE l0
      right1 == IF l0 > r0 THEN l0 ELSE r0
      right == IF right1 > Len(s) THEN Len(s) ELSE right1
  IN  IF left >= Len(s) THEN <<>> ELSE SubSeq(s, left + 1, right)

\* String::substring(beginIndex)
substringFrom(s, beginIndex) == substring(s, beginIndex, Len(s))

IsDigit(c) == c >= 48 /\ c <= 57
IsSpace(c) == c = 32 \/ (c >= 9 /\ c <= 13)

RECURSIVE SkipSpaces(_, _)
SkipSpaces(s, i) ==
  IF i <= Len(s) /\ IsSpace(s[i]) THEN SkipSpaces(s, i + 1) ELSE i

RECURSIVE ParseDigits(_, _, _)
ParseDigits(s, i, acc) ==
  IF i <= Len(s) /\ IsDigit(s[i])
  THEN ParseDigits(s, i + 1, acc * 10 + (s[i] - CH_ZERO))
  ELSE acc

\* String::toInt() (atol): leading white space, an optional sign, then the
\* longest run of digits; 0 when there is no digit
toInt(s) ==
  LET i == SkipSpaces(s, 1)
      neg == i <= Len(s) /\ s[i] = CH_MINUS
      j == IF i <= Len(s) /\ (s[i] = CH_MINUS \/ s[i] = CH_PLUS) THEN i + 1 ELSE i
      v == ParseDigits(s, j, 0)
  IN  IF neg THEN 0 - v ELSE v

RECURSIVE Digits(_)
Digits(n) ==
  IF n < 10 THEN <<CH_ZERO + n>> ELSE Append(Digits(n \div 10), CH_ZERO + (n % 10))

\* String(long): decimal text of a number
StringOf(n) == IF n < 0 THEN <<CH_MINUS>> \o Digits(0 - n) ELSE Digits(n)

\* Serial1.println(line) followed by the peer's readStringUntil('\n'): the
\* "\r" of the "\r\n" terminator stays at the end of the line that is read
println(line) == line \o <<CH_CR>>

(***************************************************************************)
(* modExp                                                                  *)
(***************************************************************************)
\* a long is 32 bits wide: a value is held here as the pair of 16-bit halves
\* of its two's-complement pattern
LongHalves(v) == [hi |-> (v \div 65536) % 65536, lo |-> v % 65536]
LongOf(h) == IF h.hi >= 32768 THEN (h.hi - 65536) * 65536 + h.lo ELSE h.hi * 65536 + h.lo

\* acc * 256 + a * byte, on bit patterns, the bits above 32 dropped
MulStep(acc, a, byte) ==
  LET shifted == acc.lo * 256
      low == a.lo * byte
      sumLo == (shifted % 65536) + (low % 65536)
      carry == (shifted \div 65536) + (low \div 65536) + (sumLo \div 65536)
  IN  [hi |-> (acc.hi * 256 + a.hi * byte + carry) % 65536, lo |-> sumLo % 65536]

\* a * b of two longs. A product that does not fit a long is signed overflow;
\* the multiply instruction leaves the low 32 bits of it, which is what is
\* computed here, byte by byte of b so that no step leaves 32 bits
LongMul(a, b) ==
  IF a >= -46340 /\ a <= 46340 /\ b >= -46340 /\ b <= 46340 THEN a * b
  ELSE LET x == LongHalves(a)
           y == LongHalves(b)
           s3 == MulStep([hi |-> 0, lo |-> 0], x, y.hi \div 256)
           s2 == MulStep(s3, x, y.hi % 256)
           s1 == MulStep(s2, x, y.lo \div 256)
           s0 == MulStep(s1, x, y.lo % 256)
       IN  LongOf(s0)

\* a % b of C on longs, b # 0: the quotient is truncated towards zero, so the
\* remainder takes the sign of a
LongRem(a, b) ==
  LET d == IF b < 0 THEN 0 - b ELSE b
  IN  IF a >= 0 THEN a % d ELSE 0 - ((((0 - (a + 1)) % d) + 1) % d)

\* a % 0 is undefined; what a build makes of it is the value of divZero: the
\* remainder is 0, the remainder is the dividend, or the processor traps
\* (Trapped tells where); a trapping build never uses the value
Rem(a, b) ==
  IF b # 0 THEN LongRem(a, b)
  ELSE IF divZero = "dividend" THEN a ELSE 0

RECURSIVE modExpLoop(_, _, _, _)
modExpLoop(result, base, exponent, modulus) ==
  IF exponent > 0
  THEN modExpLoop(IF exponent % 2 = 1 THEN Rem(LongMul(result, base), modulus) ELSE result,
                  Rem(LongMul(base, base), modulus),
                  exponent \div 2,
                  modulus)
  ELSE result

modExp(base, exponent, modulus) == modExpLoop(1, Rem(base, modulus), exponent, modulus)

\* random(howsmall, howbig): howsmall when the range is empty, else a value of
\* howsmall .. howbig - 1; the model explores the outcomes in KeyChoices
RandomOutcomes(howsmall, howbig) ==
  IF howsmall >= howbig
  THEN {howsmall}
  ELSE LET c == {k \in KeyChoices : howsmall <= k /\ k < howbig}
       IN  IF c = {} THEN {howsmall} ELSE c

(***************************************************************************)
(* DiffieHellmanManager                                                    *)
(***************************************************************************)
\* the global dhManager after its constructor: state and sharedKeyAvailable
\* are set, the other members of the static object are zero-initialized
DiffieHellmanManager ==
  [state |-> IDLE, sharedKeyAvailable |-> FALSE, sharedKey |-> 0,
   p |-> 0, g |-> 0, privateKey |-> 0, publicKey |-> 0, remotePublicKey |-> 0]

isSharedKeyAvailable(m) == m.sharedKeyAvailable
getSharedKey(m) == m.sharedKey

\* mutants of reset: the flag survives, the stored key is wiped
reset_keepsAvailable(m) == [m EXCEPT !.state = IDLE]
reset_zeroesKey(m) == [m EXCEPT !.state = IDLE, !.sharedKeyAvailable = FALSE, !.sharedKey = 0]

reset(m) == [m EXCEPT !.state = IDLE, !.sharedKeyAvailable = FALSE]

\* the result of an operation: the manager afterwards and the lines it
\* printed on Serial1
initiate(m, isAlice) ==
  IF isAlice /\ m.state = IDLE
  THEN [dh |-> [m EXCEPT !.p = DH_P, !.g = DH_G, !.state = SENT_PG],
        out |-> <<println(STR_PG \o StringOf(DH_P) \o <<CH_COMMA>> \o StringOf(DH_G))>>]
  ELSE [dh |-> m, out |-> <<>>]

\* mutants of onPG: without the role guard, without the state guard
onPG_noRoleGuard(m, msgStr, isAlice) ==
  IF m.state = IDLE
  THEN LET params == substringFrom(msgStr, 3)
           commaIndex == indexOf(params, CH_COMMA, 0)
       IN  [dh |-> [m EXCEPT !.p = toInt(substring(params, 0, commaIndex)),
                             !.g = toInt(substringFrom(params, commaIndex + 1)),
                             !.state = RECEIVED_ACK],
            out |-> <<println(STR_ACK)>>]
  ELSE [dh |-> m, out |-> <<>>]

onPG_noStateGuard(m, msgStr, isAlice) ==
  IF ~isAlice
  THEN LET params == substringFrom(msgStr, 3)
           commaIndex == indexOf(params, CH_COMMA, 0)
       IN  [dh |-> [m EXCEPT !.p = toInt(substring(params, 0, commaIndex)),
                             !.g = toInt(substringFrom(params, commaIndex + 1)),
                             !.state = RECEIVED_ACK],
            out |-> <<println(STR_ACK)>>]
  ELSE [dh |-> m, out |-> <<>>]

\* mutant of onPG: a PG read in a later state overwrites p and g
onPG_renegotiates(m, msgStr, isAlice) ==
  LET params == substringFrom(msgStr, 3)
      commaIndex == indexOf(params, CH_COMMA, 0)
  IN  IF ~isAlice /\ m.state = IDLE
      THEN [dh |-> [m EXCEPT !.p = toInt(substring(params, 0, commaIndex)),
                             !.g = toInt(substringFrom(params, commaIndex + 1)),
                             !.state = RECEIVED_ACK],
            out |-> <<println(STR_ACK)>>]
      ELSE IF ~isAlice
      THEN [dh |-> [m EXCEPT !.p = toInt(substring(params, 0, commaIndex)),
                             !.g = toInt(substringFrom(params, commaIndex + 1))],
            out |-> <<>>]
      ELSE [dh |-> m, out |-> <<>>]

\* processMessage, lines 175-187: the PG branch
onPG(m, msgStr, isAlice) ==
  IF ~isAlice /\ m.state = IDLE
  THEN LET params == substringFrom(msgStr, 3)
           commaIndex == indexOf(params, CH_COMMA, 0)
       IN  [dh |-> [m EXCEPT !.p = toInt(substring(params, 0, commaIndex)),
                             !.g = toInt(substringFrom(params, commaIndex + 1)),
                             !.state = RECEIVED_ACK],
            out |-> <<println(STR_ACK)>>]
  ELSE [dh |-> m, out |-> <<>>]

\* mutant of onACK: the Initiator takes its own public key for the shared
\* key and is Complete as it prints AKEY
onACK_completesEarly(m, isAlice, rnd) ==
  IF isAlice /\ m.state = SENT_PG
  THEN LET pub == modExp(m.g, rnd, m.p)
       IN  [dh |-> [m EXCEPT !.privateKey = rnd, !.publicKey = pub,
                             !.sharedKey = pub, !.sharedKeyAvailable = TRUE,
                             !.state = RECEIVED_B_PREKEY],
            out |-> <<println(STR_AKEY \o StringOf(pub))>>]
  ELSE [dh |-> m, out |-> <<>>]

\* mutant of onACK: the Initiator moves on to SENT_A_PREKEY as it prints AKEY
onACK_preKeySent(m, isAlice, rnd) ==
  IF isAlice /\ m.state = SENT_PG
  THEN LET pub == modExp(m.g, rnd, m.p)
       IN  [dh |-> [m EXCEPT !.privateKey = rnd, !.publicKey = pub,
                             !.state = SENT_A_PREKEY],
            out |-> <<println(STR_AKEY \o StringOf(pub))>>]
  ELSE [dh |-> m, out |-> <<>>]

\* processMessage, lines 188-197: the ACK branch
onACK(m, isAlice, rnd) ==
  IF isAlice /\ m.state = SENT_PG
  THEN LET pub == modExp(m.g, rnd, m.p)
       IN  [dh |-> [m EXCEPT !.privateKey = rnd, !.publicKey = pub,
                             !.state = RECEIVED_ACK],
            out |-> <<println(STR_AKEY \o StringOf(pub))>>]
  ELSE [dh |-> m, out |-> <<>>]

\* mutant of onAKEY: without the role guard
onAKEY_noRoleGuard(m, msgStr, isAlice, rnd) ==
  IF m.state = RECEIVED_ACK
  THEN LET remote == toInt(substringFrom(msgStr, 5))
           pub == modExp(m.g, rnd, m.p)
       IN  [dh |-> [m EXCEPT !.remotePublicKey = remote, !.privateKey = rnd,
                             !.publicKey = pub,
                             !.sharedKey = modExp(remote, rnd, m.p),
                             !.sharedKeyAvailable = TRUE,
                             !.state = RECEIVED_B_PREKEY],
            out |-> <<println(STR_BKEY \o StringOf(pub))>>]
  ELSE [dh |-> m, out |-> <<>>]

onAKEY(m, msgStr, isAlice, rnd) ==
  IF ~isAlice /\ m.state = RECEIVED_ACK
  THEN LET remote == toInt(substringFrom(msgStr, 5))
           pub == modExp(m.g, rnd, m.p)
       IN  [dh |-> [m EXCEPT !.remotePublicKey = remote, !.privateKey = rnd,
                             !.publicKey = pub,
                             !.sharedKey = modExp(remote, rnd, m.p),
                             !.sharedKeyAvailable = TRUE,
                             !.state = RECEIVED_B_PREKEY],
            out |-> <<println(STR_BKEY \o StringOf(pub))>>]
  ELSE [dh |-> m, out |-> <<>>]

\* mutant of onBKEY: the shared key is raised to the public key instead of
\* the private one
onBKEY_wrongExponent(m, msgStr, isAlice) ==
  IF isAlice /\ m.state = RECEIVED_ACK
  THEN LET remote == toInt(substringFrom(msgStr, 5))
       IN  [dh |-> [m EXCEPT !.remotePublicKey = remote,
                             !.sharedKey = modExp(remote, m.publicKey, m.p),
                             !.sharedKeyAvailable = TRUE,
                             !.state = RECEIVED_B_PREKEY],
            out |-> <<>>]
  ELSE [dh |-> m, out |-> <<>>]

onBKEY(m, msgStr, isAlice) ==
  IF isAlice /\ m.state = RECEIVED_ACK
  THEN LET remote == toInt(substringFrom(msgStr, 5))
       IN  [dh |-> [m EXCEPT !.remotePublicKey = remote,
                             !.sharedKey = modExp(remote, m.privateKey, m.p),
                             !.sharedKeyAvailable = TRUE,
                             !.state = RECEIVED_B_PREKEY],
            out |-> <<>>]
  ELSE [dh |-> m, out |-> <<>>]

\* rnd is what random(2, p - 2) returns if the message makes the manager draw
processMessage(m, msgStr, isAlice, rnd) ==
  IF startsWith(msgStr, STR_PG) THEN onPG(m, msgStr, isAlice)
  ELSE IF startsWith(msgStr, STR_ACK) THEN onACK(m, isAlice, rnd)
  ELSE IF startsWith(msgStr, STR_AKEY) THEN onAKEY(m, msgStr, isAlice, rnd)
  ELSE IF startsWith(msgStr, STR_BKEY) THEN onBKEY(m, msgStr, isAlice)
  ELSE [dh |-> m, out |-> <<>>]

(***************************************************************************)
(* CommunicationManager: the cipher                                        *)
(***************************************************************************)
RECURSIVE BitXor(_, _)
BitXor(a, b) ==
  IF a = 0 /\ b = 0 THEN 0
  ELSE (((a % 2) + (b % 2)) % 2) + 2 * BitXor(a \div 2, b \div 2)

\* the values of a ^ b for b in lo .. hi
RECURSIVE XorRow(_, _, _)
XorRow(a, lo, hi) ==
  IF lo = hi THEN <<BitXor(a, lo)>>
  ELSE LET mid == (lo + hi) \div 2
       IN  XorRow(a, lo, mid) \o XorRow(a, mid + 1, hi)

\* the rows of a in lo .. hi
RECURSIVE XorRows(_, _)
XorRows(lo, hi) ==
  IF lo = hi THEN <<XorRow(lo, 0, 255)>>
  ELSE LET mid == (lo + hi) \div 2
       IN  XorRows(lo, mid) \o XorRows(mid + 1, hi)

\* a ^ b on bytes, tabulated once: XorTable[a + 1][b + 1]
XorTable == XorRows(0, 255)
XorByte(a, b) == XorTable[a + 1][b + 1]

\* the remainder of C's %, which takes the sign of the dividend
CRem(a, b) == IF a >= 0 THEN a % b ELSE 0 - ((0 - a) % b)

\* the low eight bits of an int, as conversion to char keeps them
LowByte(v) == v % 256

\* (int) of a char holding the byte b
CharToInt(b, isSigned) == IF isSigned /\ b >= 128 THEN b - 256 ELSE b

\* String += char: a NUL char appends nothing
AppendChar(s, b) == IF b = 0 THEN s ELSE Append(s, b)

RECURSIVE encryptLoop(_, _, _, _, _)
encryptLoop(plainText, i, key, isSigned, encryptedText) ==
  IF i > Len(plainText) THEN encryptedText
  ELSE LET encryptedChar == XorByte(plainText[i], LowByte(key))
       IN  encryptLoop(plainText, i + 1, key, isSigned,
             encryptedText \o StringOf(CharToInt(encryptedChar, isSigned)) \o <<CH_SPACE>>)

\* strlen: the bytes before the first NUL
strlen(str) ==
  LET i == indexOf(str, 0, 0) IN IF i = -1 THEN Len(str) ELSE i

\* the text a const char * parameter designates: the bytes up to the NUL
CStr(str) == SubSeq(str, 1, strlen(str))

\* mutant of encryptMessage: the tokens are not set apart by a space
encryptMessage_noSeparator(m, plainText, isSigned) ==
  LET tokens == encryptLoop(CStr(plainText), 1, CRem(getSharedKey(m), 256), isSigned, <<>>)
  IN  SelectSeq(tokens, LAMBDA c : c # CH_SPACE)

encryptMessage(m, plainText, isSigned) ==
  encryptLoop(CStr(plainText), 1, CRem(getSharedKey(m), 256), isSigned, <<>>)

RECURSIVE decryptLoop(_, _, _, _, _)
decryptLoop(cipherStr, start, end, key, decryptedText) ==
  IF end = -1 THEN decryptedText
  ELSE LET encryptedChar == LowByte(toInt(substring(cipherStr, start, end)))
           decryptedChar == XorByte(encryptedChar, LowByte(key))
       IN  decryptLoop(cipherStr, end + 1, indexOf(cipherStr, CH_SPACE, end + 1), key,
                       AppendChar(decryptedText, decryptedChar))

decryptMessage(m, cipherText) ==
  decryptLoop(cipherText, 0, indexOf(cipherText, CH_SPACE, 0),
              CRem(getSharedKey(m), 256), <<>>)

(***************************************************************************)
(* CommunicationManager: sending and receiving                             *)
(***************************************************************************)
\* sendPlainText: displays "Sent: <message>" and prints the message
sendPlainText(message) ==
  [out |-> <<println(message)>>, shown |-> <<STR_SENT \o message>>]

\* sendEncrypted: prints the encrypted message, displays nothing
sendEncrypted(m, message, isSigned) ==
  [out |-> <<println(encryptMessage(m, message, isSigned))>>, shown |-> <<>>]

IsPayload(line) ==
  ~(\/ startsWith(line, STR_PG)
    \/ startsWith(line, STR_ACK)
    \/ startsWith(line, STR_AKEY)
    \/ startsWith(line, STR_BKEY))

IsControl(receivedMessage) ==
  \/ startsWith(receivedMessage, STR_PG)
  \/ startsWith(receivedMessage, STR_ACK)
  \/ startsWith(receivedMessage, STR_AKEY)
  \/ startsWith(receivedMessage, STR_BKEY)

\* mutants of onReceive: the payload is decrypted whether or not a key is
\* available; the level is not looked at
onReceive_noKeyCheck(m, receivedMessage, isAlice, currentLevel, rnd) ==
  IF currentLevel = LEVEL0
  THEN [dh |-> m, out |-> <<>>, shown |-> <<STR_RECV \o receivedMessage>>]
  ELSE IF currentLevel = LEVEL1
  THEN IF IsControl(receivedMessage)
       THEN LET r == processMessage(m, receivedMessage, isAlice, rnd)
            IN  [dh |-> r.dh, out |-> r.out, shown |-> <<>>]
       ELSE [dh |-> m, out |-> <<>>,
             shown |-> <<STR_RECV \o decryptMessage(m, receivedMessage)>>]
  ELSE [dh |-> m, out |-> <<>>, shown |-> <<>>]

onReceive_noLevelCheck(m, receivedMessage, isAlice, currentLevel, rnd) ==
  IF IsControl(receivedMessage)
  THEN LET r == processMessage(m, receivedMessage, isAlice, rnd)
       IN  [dh |-> r.dh, out |-> r.out, shown |-> <<>>]
  ELSE IF currentLevel = LEVEL0
  THEN [dh |-> m, out |-> <<>>, shown |-> <<STR_RECV \o receivedMessage>>]
  ELSE IF isSharedKeyAvailable(m)
  THEN [dh |-> m, out |-> <<>>,
        shown |-> <<STR_RECV \o decryptMessage(m, receivedMessage)>>]
  ELSE [dh |-> m, out |-> <<>>, shown |-> <<STR_NOKEY>>]

\* onReceive with the line readStringUntil returned; the caller has checked
\* Serial1.available() > 0
onReceive(m, receivedMessage, isAlice, currentLevel, rnd) ==
  IF currentLevel = LEVEL0
  THEN [dh |-> m, out |-> <<>>, shown |-> <<STR_RECV \o receivedMessage>>]
  ELSE IF currentLevel = LEVEL1
  THEN IF IsControl(receivedMessage)
       THEN LET r == processMessage(m, receivedMessage, isAlice, rnd)
            IN  [dh |-> r.dh, out |-> r.out, shown |-> <<>>]
       ELSE IF isSharedKeyAvailable(m)
       THEN [dh |-> m, out |-> <<>>,
             shown |-> <<STR_RECV \o decryptMessage(m, receivedMessage)>>]
       ELSE [dh |-> m, out |-> <<>>, shown |-> <<STR_NOKEY>>]
  ELSE [dh |-> m, out |-> <<>>, shown |-> <<>>]

\* processMessage takes a branch that calls modExp while p is 0: its first
\* statement, base % modulus, divides by zero
DividesByZero(m, msgStr, isAlice) ==
  /\ m.p = 0
  /\ ~startsWith(msgStr, STR_PG)
  /\ IF startsWith(msgStr, STR_ACK) THEN isAlice /\ m.state = SENT_PG
     ELSE IF startsWith(msgStr, STR_AKEY) THEN ~isAlice /\ m.state = RECEIVED_ACK
     ELSE startsWith(msgStr, STR_BKEY) /\ isAlice /\ m.state = RECEIVED_ACK

\* onReceive does not return: the division by zero trapped
Trapped(m, receivedMessage, isAlice, currentLevel) ==
  /\ divZero = "trap"
  /\ currentLevel = LEVEL1
  /\ IsControl(receivedMessage)
  /\ DividesByZero(m, receivedMessage, isAlice)

(***************************************************************************)
(* LevelManager                                                            *)
(***************************************************************************)
\* mutant of nextLevel: the level cycles through all three enumerators
nextLevel_threeLevels(currentLevel) == (currentLevel + 1) % 3

\* nextLevel(), lines 325-327
nextLevel(currentLevel) == (currentLevel + 1) % 2

(***************************************************************************)
(* Alice and Bob                                                           *)
(***************************************************************************)
\* mutant of Alice: the constructor leaves the handshake marked as initiated
Alice_keepsInitiated ==
  [sequenceNumber |-> 1, lastSendTime |-> 0, dhInitiated |-> TRUE,
   testMessagesSent |-> FALSE]

Alice ==
  [sequenceNumber |-> 1, lastSendTime |-> 0, dhInitiated |-> FALSE,
   testMessagesSent |-> FALSE]

Bob ==
  [sequenceNumber |-> 1, lastSendTime |-> 0, dhInitiated |-> FALSE,
   testMessagesSent |-> FALSE]

\* currentMillis - lastSendTime; the clock of the model never wraps and
\* lastSendTime is an earlier reading of it
Elapsed(currentMillis, lastSendTime) == currentMillis - lastSendTime

Alice_level0(a, m, currentMillis) ==
  IF Elapsed(currentMillis, a.lastSendTime) >= sendInterval
  THEN LET s == sendPlainText(STR_MESSAGE \o StringOf(a.sequenceNumber))
       IN  [agent |-> [a EXCEPT !.sequenceNumber = @ + 1, !.lastSendTime = currentMillis],
            dh |-> m, out |-> s.out, shown |-> s.shown]
  ELSE [agent |-> a, dh |-> m, out |-> <<>>, shown |-> <<>>]

\* the part of level1 after the handshake initiation, the same for both
\* roles up to the texts and the order of the scripted pair
\* mutant of level1_send: the scripted pair waits for the send interval too
level1_send_gated(a, m, currentMillis, isSigned, isAlice) ==
  IF isSharedKeyAvailable(m) /\ Elapsed(currentMillis, a.lastSendTime) >= sendInterval
  THEN IF ~a.testMessagesSent
       THEN LET pl == sendPlainText(IF isAlice THEN STR_PLAIN1 ELSE STR_PLAIN2)
                en == sendEncrypted(m, IF isAlice THEN STR_ENC2 ELSE STR_ENC1, isSigned)
            IN  [agent |-> [a EXCEPT !.testMessagesSent = TRUE,
                                     !.lastSendTime = currentMillis],
                 dh |-> m,
                 out |-> IF isAlice THEN pl.out \o en.out ELSE en.out \o pl.out,
                 shown |-> pl.shown]
       ELSE LET en == sendEncrypted(m,
                        (IF isAlice THEN STR_NEW ELSE STR_REP) \o StringOf(a.sequenceNumber),
                        isSigned)
            IN  [agent |-> [a EXCEPT !.sequenceNumber = @ + 1,
                                     !.lastSendTime = currentMillis],
                 dh |-> m, out |-> en.out, shown |-> <<>>]
  ELSE [agent |-> a, dh |-> m, out |-> <<>>, shown |-> <<>>]

\* mutant of level1_send: the availability of the shared key is not looked at
level1_send_noKeyCheck(a, m, currentMillis, isSigned, isAlice) ==
  IF ~a.testMessagesSent
  THEN LET pl == sendPlainText(IF isAlice THEN STR_PLAIN1 ELSE STR_PLAIN2)
           en == sendEncrypted(m, IF isAlice THEN STR_ENC2 ELSE STR_ENC1, isSigned)
       IN  [agent |-> [a EXCEPT !.testMessagesSent = TRUE,
                                !.lastSendTime = currentMillis],
            dh |-> m,
            out |-> IF isAlice THEN pl.out \o en.out ELSE en.out \o pl.out,
            shown |-> pl.shown]
  ELSE IF Elapsed(currentMillis, a.lastSendTime) >= sendInterval
  THEN LET en == sendEncrypted(m,
                   (IF isAlice THEN STR_NEW ELSE STR_REP) \o StringOf(a.sequenceNumber),
                   isSigned)
       IN  [agent |-> [a EXCEPT !.sequenceNumber = @ + 1,
                                !.lastSendTime = currentMillis],
            dh |-> m, out |-> en.out, shown |-> <<>>]
  ELSE [agent |-> a, dh |-> m, out |-> <<>>, shown |-> <<>>]

level1_send(a, m, currentMillis, isSigned, isAlice) ==
  IF isSharedKeyAvailable(m)
  THEN IF ~a.testMessagesSent
       THEN LET pl == sendPlainText(IF isAlice THEN STR_PLAIN1 ELSE STR_PLAIN2)
                en == sendEncrypted(m, IF isAlice THEN STR_ENC2 ELSE STR_ENC1, isSigned)
            IN  [agent |-> [a EXCEPT !.testMessagesSent = TRUE,
                                     !.lastSendTime = currentMillis],
                 dh |-> m,
                 out |-> IF isAlice THEN pl.out \o en.out ELSE en.out \o pl.out,
                 shown |-> pl.shown]
       ELSE IF Elapsed(currentMillis, a.lastSendTime) >= sendInterval
       THEN LET en == sendEncrypted(m,
                        (IF isAlice THEN STR_NEW ELSE STR_REP) \o StringOf(a.sequenceNumber),
                        isSigned)
            IN  [agent |-> [a EXCEPT !.sequenceNumber = @ + 1,
                                     !.lastSendTime = currentMillis],
                 dh |-> m, out |-> en.out, shown |-> <<>>]
       ELSE [agent |-> a, dh |-> m, out |-> <<>>, shown |-> <<>>]
  ELSE [agent |-> a, dh |-> m, out |-> <<>>, shown |-> <<>>]

\* mutant of Alice_level1: the PG is printed again while no ACK has come
Alice_level1_retries(a, m, currentMillis, isSigned) ==
  LET i == IF ~a.dhInitiated \/ m.state = SENT_PG
           THEN initiate(reset(m), TRUE) ELSE [dh |-> m, out |-> <<>>]
      a1 == [a EXCEPT !.dhInitiated = TRUE]
      r == level1_send(a1, i.dh, currentMillis, isSigned, TRUE)
  IN  [r EXCEPT !.out = i.out \o @]

\* Alice::level1, lines 368-400
Alice_level1(a, m, currentMillis, isSigned) ==
  LET i == IF ~a.dhInitiated THEN initiate(reset(m), TRUE) ELSE [dh |-> m, out |-> <<>>]
      a1 == [a EXCEPT !.dhInitiated = TRUE]
      r == level1_send(a1, i.dh, currentMillis, isSigned, TRUE)
  IN  [r EXCEPT !.out = i.out \o @]

Bob_level1(a, m, currentMillis, isSigned) ==
  LET m1 == IF ~a.dhInitiated THEN reset(m) ELSE m
      a1 == [a EXCEPT !.dhInitiated = TRUE]
  IN  level1_send(a1, m1, currentMillis, isSigned, FALSE)

Alice_run(a, m, currentLevel, currentMillis, isSigned) ==
  IF currentLevel = LEVEL0 THEN Alice_level0(a, m, currentMillis)
  ELSE IF currentLevel = LEVEL1 THEN Alice_level1(a, m, currentMillis, isSigned)
  ELSE [agent |-> a, dh |-> m, out |-> <<>>, shown |-> <<>>]

\* mutant of Bob_run: at LEVEL0 Bob sends as Alice does
Bob_run_talks(a, m, currentLevel, currentMillis, isSigned) ==
  IF currentLevel = LEVEL1 THEN Bob_level1(a, m, currentMillis, isSigned)
  ELSE Alice_level0(a, m, currentMillis)

Bob_run(a, m, currentLevel, currentMillis, isSigned) ==
  IF currentLevel = LEVEL1 THEN Bob_level1(a, m, currentMillis, isSigned)
  ELSE [agent |-> a, dh |-> m, out |-> <<>>, shown |-> <<>>]

(***************************************************************************)
(* The two devices and the link between them                               *)
(***************************************************************************)
\* lines printed by d, as they queue up in the peer's receive buffer
Frames(d, out) == [i \in 1 .. Len(out) |-> [from |-> d, line |-> out[i]]]

Last(s) == s[Len(s)]
Track(tr, st) == IF Last(tr) = st THEN tr ELSE Append(tr, st)

\* the link has lost nothing
NoLoss == [kind |-> "none", presses |-> [d \in Dev |-> 0]]

\* no function is applied on its own
NoCalc == [op |-> "none"]

\* what every specification starts from, up to the devices that are powered
\* and the signedness of char
Boot ==
  /\ level = [d \in Dev |-> LEVEL0]
  /\ dh = [d \in Dev |-> DiffieHellmanManager]
  /\ agent = [d \in Dev |-> IF IsAlice(d) THEN Alice ELSE Bob]
  /\ inbox = [d \in Dev |-> <<>>]
  /\ shown = [d \in Dev |-> <<>>]
  /\ got = [d \in Dev |-> <<>>]
  /\ now = BootMillis
  /\ toggleCount = [d \in Dev |-> 0]
  /\ trail = [d \in Dev |-> <<IDLE>>]
  /\ log = [d \in Dev |-> <<>>]
  /\ lost = NoLoss
  /\ missed = FALSE

Init ==
  /\ Boot
  /\ pc = [d \in Dev |-> "top"]
  /\ charSigned = FALSE
  /\ divZero = "zero"
  /\ calc = NoCalc

\* loop(), lines 506-527: the button is held, the level changes, the
\* handshake is reset and the peer agent is created anew
ToggleLevel(d) ==
  /\ pc[d] = "top"
  /\ level' = [level EXCEPT ![d] = nextLevel(@)]
  /\ dh' = [dh EXCEPT ![d] = reset(@)]
  /\ agent' = [agent EXCEPT ![d] = IF IsAlice(d) THEN Alice ELSE Bob]
  /\ pc' = [pc EXCEPT ![d] = "recv"]
  /\ shown' = [shown EXCEPT ![d] = <<>>]
  /\ got' = [got EXCEPT ![d] = <<>>]
  /\ toggleCount' = [toggleCount EXCEPT ![d] = IF @ < 2 THEN @ + 1 ELSE @]
  /\ trail' = [trail EXCEPT ![d] = <<IDLE>>]
  /\ log' = [log EXCEPT ![d] = <<>>]
  /\ UNCHANGED <<inbox, now, charSigned, divZero, calc>>

\* what random(2, p - 2) can return while d handles the line at the head of
\* its buffer; only a handshake frame makes the manager draw
Draws(d) ==
  IF IsControl(Head(inbox[d]).line) THEN RandomOutcomes(2, dh[d].p - 2) ELSE {0}

\* loop(), line 530: the button is not held (or the toggle block is done);
\* onReceive takes one line if one is available. On a build where a division
\* by zero traps, a frame that makes modExp divide by zero stops the device:
\* the line is consumed and loop() goes no further
Receive(d) ==
  /\ pc[d] \in {"top", "recv"}
  /\ IF inbox[d] = <<>>
     THEN /\ pc' = [pc EXCEPT ![d] = "run"]
          /\ shown' = [shown EXCEPT ![d] = <<>>]
          /\ got' = [got EXCEPT ![d] = <<>>]
          /\ UNCHANGED <<dh, inbox, trail>>
     ELSE IF Trapped(dh[d], Head(inbox[d]).line, IsAlice(d), level[d])
     THEN /\ pc' = [pc EXCEPT ![d] = "trap"]
          /\ inbox' = [inbox EXCEPT ![d] = Tail(@)]
          /\ shown' = [shown EXCEPT ![d] = <<>>]
          /\ got' = [got EXCEPT ![d] = <<Head(inbox[d]).line>>]
          /\ UNCHANGED <<dh, trail>>
     ELSE /\ pc' = [pc EXCEPT ![d] = "run"]
          /\ \E rnd \in Draws(d) :
              \E r \in {onReceive(dh[d], Head(inbox[d]).line, IsAlice(d), level[d], rnd)} :
                /\ Len(inbox[Peer(d)]) + Len(r.out) <= MaxQueue
                /\ dh' = [dh EXCEPT ![d] = r.dh]
                /\ inbox' = [inbox EXCEPT ![d] = Tail(@),
                                          ![Peer(d)] = @ \o Frames(d, r.out)]
                /\ shown' = [shown EXCEPT ![d] = r.shown]
                /\ got' = [got EXCEPT ![d] = <<Head(inbox[d]).line>>]
                /\ trail' = [trail EXCEPT ![d] = Track(@, r.dh.state)]
  /\ UNCHANGED <<level, agent, now, charSigned, divZero, calc, toggleCount, log>>

\* loop(), lines 532-536: alice->run or bob->run, with room for `room` lines
\* in the peer's receive buffer
RunWithin(d, room) ==
  /\ pc[d] = "run"
  /\ pc' = [pc EXCEPT ![d] = "top"]
  /\ \E r \in {IF IsAlice(d)
                THEN Alice_run(agent[d], dh[d], level[d], now, charSigned)
                ELSE Bob_run(agent[d], dh[d], level[d], now, charSigned)} :
         /\ Len(inbox[Peer(d)]) + Len(r.out) <= room
         /\ agent' = [agent EXCEPT ![d] = r.agent]
         /\ dh' = [dh EXCEPT ![d] = r.dh]
         /\ inbox' = [inbox EXCEPT ![Peer(d)] = @ \o Frames(d, r.out)]
         /\ shown' = [shown EXCEPT ![d] = r.shown]
         /\ got' = [got EXCEPT ![d] = <<>>]
         /\ trail' = [trail EXCEPT ![d] =
                        Track(IF level[d] = LEVEL1 /\ ~agent[d].dhInitiated
                              THEN Track(@, IDLE) ELSE @,
                              r.dh.state)]
         /\ log' = [log EXCEPT ![d] = @ \o SelectSeq(r.out, IsPayload)]
  /\ UNCHANGED <<level, now, charSigned, divZero, calc, toggleCount>>

Run(d) == RunWithin(d, MaxQueue)

\* millis() advances
Tick ==
  /\ now < BootMillis + MaxTicks * ClockStep
  /\ now' = now + ClockStep
  /\ UNCHANGED <<level, dh, agent, pc, inbox, shown, got, charSigned, divZero, calc, toggleCount, trail, log>>

Next ==
  \/ \E d \in Dev : ToggleLevel(d) /\ UNCHANGED <<lost, missed>>
  \/ \E d \in Dev : Receive(d) /\ UNCHANGED <<lost, missed>>
  \/ \E d \in Dev : Run(d) /\ UNCHANGED <<lost, missed>>
  \/ Tick /\ UNCHANGED <<lost, missed>>

Spec == Init /\ [][Next]_vars

(***************************************************************************)
(* One session: the two devices on the same link, each button pressed at   *)
(* most once, so that each device enters LEVEL1 once and stays there.      *)
(***************************************************************************)
ToggleOnce(d) == toggleCount[d] = 0 /\ ToggleLevel(d)

NextSession ==
  \/ \E d \in Dev : ToggleOnce(d) /\ UNCHANGED <<lost, missed>>
  \/ \E d \in Dev : Receive(d) /\ UNCHANGED <<lost, missed>>
  \/ \E d \in Dev : Run(d) /\ UNCHANGED <<lost, missed>>
  \/ Tick /\ UNCHANGED <<lost, missed>>

SpecSession == Init /\ [][NextSession]_vars

\* how many lines processMessage prints for the line d is about to read:
\* one where a branch passes its role and state guard and prints
Replies(d) ==
  IF level[d] # LEVEL1 THEN 0
  ELSE IF startsWith(Head(inbox[d]).line, STR_PG)
  THEN (IF ~IsAlice(d) /\ dh[d].state = IDLE THEN 1 ELSE 0)
  ELSE IF startsWith(Head(inbox[d]).line, STR_ACK)
  THEN (IF IsAlice(d) /\ dh[d].state = SENT_PG THEN 1 ELSE 0)
  ELSE IF startsWith(Head(inbox[d]).line, STR_AKEY)
  THEN (IF ~IsAlice(d) /\ dh[d].state = RECEIVED_ACK THEN 1 ELSE 0)
  ELSE 0

\* Receive(d) can take a step: its guard, without the computation of the reply
CanReceive(d) ==
  /\ pc[d] \in {"top", "recv"}
  /\ inbox[d] # <<>> => Len(inbox[Peer(d)]) + Replies(d) <= MaxQueue

\* a step that is Receive(d): the only one that takes d from before
\* onReceive to after it
Reads(d) == pc[d] \in {"top", "recv"} /\ pc'[d] \in {"run", "trap"}

\* weak fairness of Receive(d), written with its guard: if Receive(d) can
\* take a step from some point on, it takes steps again and again
FairReceive(d) == <>[]CanReceive(d) => []<><<Reads(d)>>_vars

\* loop() is called again and again (the Arduino core's main): a device
\* whose onReceive or run can take a step takes it eventually
SpecSessionFair ==
  /\ Init /\ [][NextSession]_vars
  /\ \A d \in Dev : WF_vars(Run(d) /\ UNCHANGED <<lost, missed>>)
  /\ \A d \in Dev : FairReceive(d)

\* One session in which the receive buffer has room for a reply and the
\* scripted pair behind it: BKEY, Enc_Message_1 and Plain_Message_2 can wait
\* together (processMessage, line 213; Bob::level1, lines 437-441).
PairRoom == MaxQueue + 1

NextPair ==
  \/ \E d \in Dev : ToggleOnce(d) /\ UNCHANGED <<lost, missed>>
  \/ \E d \in Dev : Receive(d) /\ UNCHANGED <<lost, missed>>
  \/ \E d \in Dev : RunWithin(d, PairRoom) /\ UNCHANGED <<lost, missed>>
  \/ Tick /\ UNCHANGED <<lost, missed>>

SpecPair == Init /\ [][NextPair]_vars

(***************************************************************************)
(* One device on a link whose far end is not the peer sketch: the far end  *)
(* sends any line of InjectLines once the device has read the previous     *)
(* one, and takes every line the device prints before anything else        *)
(* happens.  The device that is not powered has pc = "off"; its receive    *)
(* buffer stands for the far end.                                          *)
(***************************************************************************)
InjectLines ==
  { println(STR_PG \o StringOf(DH_P) \o <<CH_COMMA>> \o StringOf(DH_G)),
    println(STR_PG \o StringOf(23) \o <<CH_COMMA>> \o StringOf(5)),
    println(STR_ACK),
    println(STR_AKEY \o StringOf(128)),
    println(STR_BKEY \o StringOf(2048)),
    println(<<55, 50, 32, 49, 48, 53, 32>>),      \* "72 105 "
    <<72, 105>> }                                  \* "Hi"

InitDevice ==
  /\ Boot
  /\ \E powered \in Dev : pc = [d \in Dev |-> IF d = powered THEN "top" ELSE "off"]
  /\ charSigned \in BOOLEAN
  /\ divZero = "zero"
  /\ calc = NoCalc

Inject(d) ==
  /\ pc[d] # "off"
  /\ inbox[d] = <<>>
  /\ \E line \in InjectLines :
       inbox' = [inbox EXCEPT ![d] = Append(@, [from |-> "env", line |-> line])]
  /\ UNCHANGED <<level, dh, agent, pc, shown, got, now, charSigned, divZero, calc, toggleCount, trail, log>>

Drain(d) ==
  /\ pc[d] = "off"
  /\ inbox[d] # <<>>
  /\ inbox' = [inbox EXCEPT ![d] = Tail(@)]
  /\ UNCHANGED <<level, dh, agent, pc, shown, got, now, charSigned, divZero, calc, toggleCount, trail, log>>

\* the far end has taken all the device printed
FarEndIdle == \A d \in Dev : pc[d] = "off" => inbox[d] = <<>>

NextDevice ==
  \/ FarEndIdle /\ \E d \in Dev : ToggleLevel(d) /\ UNCHANGED <<lost, missed>>
  \/ FarEndIdle /\ \E d \in Dev : Receive(d) /\ UNCHANGED <<lost, missed>>
  \/ FarEndIdle /\ \E d \in Dev : Run(d) /\ UNCHANGED <<lost, missed>>
  \/ FarEndIdle /\ \E d \in Dev : Inject(d) /\ UNCHANGED <<lost, missed>>
  \/ FarEndIdle /\ Tick /\ UNCHANGED <<lost, missed>>
  \/ \E d \in Dev : Drain(d) /\ UNCHANGED <<lost, missed>>

SpecDevice == InitDevice /\ [][NextDevice]_vars

(***************************************************************************)
(* One device fed control frames whose payload is damaged, next to the     *)
(* well-formed frames that bring it to the states where a frame of each    *)
(* kind is accepted.  The build's treatment of a % 0 is any of the three.  *)
(***************************************************************************)
MalformedFrames ==
  { println(STR_PG \o <<120, 44, 121>>),            \* "PG:x,y"
    println(STR_PG \o StringOf(DH_P)),               \* "PG:2089", no comma
    println(STR_AKEY \o <<122, 122>>),               \* "AKEY:zz"
    println(STR_BKEY \o <<122, 122>>) }              \* "BKEY:zz"

MalformedLines ==
  MalformedFrames \cup
  { println(STR_PG \o StringOf(DH_P) \o <<CH_COMMA>> \o StringOf(DH_G)),
    println(STR_ACK) }

DivZeroOutcomes == {"zero", "dividend", "trap"}

InitMalformed ==
  /\ Boot
  /\ \E powered \in Dev : pc = [d \in Dev |-> IF d = powered THEN "top" ELSE "off"]
  /\ charSigned = FALSE
  /\ divZero \in DivZeroOutcomes
  /\ calc = NoCalc

InjectMalformed(d) ==
  /\ pc[d] # "off"
  /\ inbox[d] = <<>>
  /\ \E line \in MalformedLines :
       inbox' = [inbox EXCEPT ![d] = Append(@, [from |-> "env", line |-> line])]
  /\ UNCHANGED <<level, dh, agent, pc, shown, got, now, charSigned, divZero, calc,
                 toggleCount, trail, log>>

NextMalformed ==
  \/ FarEndIdle /\ \E d \in Dev : ToggleLevel(d) /\ UNCHANGED <<lost, missed>>
  \/ FarEndIdle /\ \E d \in Dev : Receive(d) /\ UNCHANGED <<lost, missed>>
  \/ FarEndIdle /\ \E d \in Dev : Run(d) /\ UNCHANGED <<lost, missed>>
  \/ FarEndIdle /\ \E d \in Dev : InjectMalformed(d) /\ UNCHANGED <<lost, missed>>
  \/ FarEndIdle /\ Tick /\ UNCHANGED <<lost, missed>>
  \/ \E d \in Dev : Drain(d) /\ UNCHANGED <<lost, missed>>

SpecMalformed == InitMalformed /\ [][NextMalformed]_vars

(***************************************************************************)
(* The cipher applied on its own: a byte sequence and a key are drawn, the *)
(* sequence is encrypted, the tokens are decrypted.                        *)
(***************************************************************************)
MaxLen == 2          \* bytes in a plaintext the cipher is applied to
CipherBytes == {0, 1, 48, 128, 255}
CipherKeys == 0 .. 255

RECURSIVE SeqsUpTo(_, _)
SeqsUpTo(S, n) ==
  IF n = 0 THEN {<<>>}
  ELSE LET shorter == SeqsUpTo(S, n - 1)
       IN  shorter \cup {Append(q, b) : q \in {t \in shorter : Len(t) = n - 1}, b \in S}

\* the manager of a device that holds the shared key k
Keyed(k) == [DiffieHellmanManager EXCEPT !.sharedKey = k, !.sharedKeyAvailable = TRUE,
                                        !.state = RECEIVED_B_PREKEY]

InitCipher ==
  /\ Boot
  /\ pc = [d \in Dev |-> "off"]
  /\ charSigned \in BOOLEAN
  /\ divZero = "zero"
  /\ \E S \in SeqsUpTo(CipherBytes, MaxLen), k \in CipherKeys :
       calc = [op |-> "cipher", stage |-> 0, S |-> S, key |-> k,
               tokens |-> <<>>, text |-> <<>>]

Encrypt ==
  /\ calc.op = "cipher" /\ calc.stage = 0
  /\ calc' = [calc EXCEPT !.stage = 1,
                          !.tokens = encryptMessage(Keyed(calc.key), calc.S, charSigned)]
  /\ UNCHANGED <<level, dh, agent, pc, inbox, shown, got, now, charSigned, divZero,
                 toggleCount, trail, log>>

Decrypt ==
  /\ calc.op = "cipher" /\ calc.stage = 1
  /\ calc' = [calc EXCEPT !.stage = 2,
                          !.text = decryptMessage(Keyed(calc.key), calc.tokens)]
  /\ UNCHANGED <<level, dh, agent, pc, inbox, shown, got, now, charSigned, divZero,
                 toggleCount, trail, log>>

NextCipher ==
  \/ Encrypt /\ UNCHANGED <<lost, missed>>
  \/ Decrypt /\ UNCHANGED <<lost, missed>>

SpecCipher == InitCipher /\ [][NextCipher]_vars

(***************************************************************************)
(* modExp applied on its own: to drawn arguments, and twice over as the    *)
(* two ends of a key exchange apply it (processMessage, lines 193, 207,    *)
(* 210 and 223).                                                           *)
(***************************************************************************)
MaxExp == 5          \* largest exponent modExp is applied to on its own
ModExpBases == {0, 1, 2, 3, 10, 46341}
ModExpModuli == {1, 2, 3, 7, 10, 2089, 46341, 65537}

\* primes with a primitive root, and private scalars
DHGroups == {<<5, 2>>, <<7, 3>>, <<11, 2>>, <<2089, 2>>, <<65537, 3>>}
DHScalars == {2, 3, 7, 10, 11}

InitModExp ==
  /\ Boot
  /\ pc = [d \in Dev |-> "off"]
  /\ charSigned = FALSE
  /\ divZero = "zero"
  /\ \/ \E base \in ModExpBases, exponent \in 0 .. MaxExp, modulus \in ModExpModuli :
          calc = [op |-> "modExp", done |-> FALSE, base |-> base,
                  exponent |-> exponent, modulus |-> modulus, result |-> 0]
     \/ \E pg \in DHGroups :
          \E a, b \in {k \in DHScalars : k <= pg[1] - 2} :
            calc = [op |-> "exchange", done |-> FALSE, p |-> pg[1], g |-> pg[2],
                    a |-> a, b |-> b, keyOfB |-> 0, keyOfA |-> 0]

ApplyModExp ==
  /\ calc.op = "modExp" /\ ~calc.done
  /\ calc' = [calc EXCEPT !.done = TRUE,
                          !.result = modExp(calc.base, calc.exponent, calc.modulus)]
  /\ UNCHANGED <<level, dh, agent, pc, inbox, shown, got, now, charSigned, divZero,
                 toggleCount, trail, log>>

\* the Responder raises the Initiator's public value to b, the Initiator the
\* Responder's public value to a
ApplyExchange ==
  /\ calc.op = "exchange" /\ ~calc.done
  /\ calc' = [calc EXCEPT !.done = TRUE,
                          !.keyOfB = modExp(modExp(calc.g, calc.a, calc.p), calc.b, calc.p),
                          !.keyOfA = modExp(modExp(calc.g, calc.b, calc.p), calc.a, calc.p)]
  /\ UNCHANGED <<level, dh, agent, pc, inbox, shown, got, now, charSigned, divZero,
                 toggleCount, trail, log>>

NextModExp ==
  \/ ApplyModExp /\ UNCHANGED <<lost, missed>>
  \/ ApplyExchange /\ UNCHANGED <<lost, missed>>

SpecModExp == InitModExp /\ [][NextModExp]_vars

(***************************************************************************)
(* One device run for several send intervals: the far end feeds it the     *)
(* frames of a handshake and a payload line.                               *)
(***************************************************************************)
MaxSteadyTicks == 3  \* clock readings after boot in a long run, ClockStep ms apart

SteadyLines ==
  { println(STR_PG \o StringOf(DH_P) \o <<CH_COMMA>> \o StringOf(DH_G)),
    println(STR_ACK),
    println(STR_AKEY \o StringOf(128)),
    println(STR_BKEY \o StringOf(2048)),
    println(<<72, 105>>) }                         \* "Hi"

InitSteady ==
  /\ Boot
  /\ \E powered \in Dev : pc = [d \in Dev |-> IF d = powered THEN "top" ELSE "off"]
  /\ charSigned = FALSE
  /\ divZero = "zero"
  /\ calc = NoCalc

InjectSteady(d) ==
  /\ pc[d] # "off"
  /\ inbox[d] = <<>>
  /\ \E line \in SteadyLines :
       inbox' = [inbox EXCEPT ![d] = Append(@, [from |-> "env", line |-> line])]
  /\ UNCHANGED <<level, dh, agent, pc, shown, got, now, charSigned, divZero, calc,
                 toggleCount, trail, log>>

\* millis() advances, in a long run
LongTick ==
  /\ now < BootMillis + MaxSteadyTicks * ClockStep
  /\ now' = now + ClockStep
  /\ UNCHANGED <<level, dh, agent, pc, inbox, shown, got, charSigned, divZero, calc,
                 toggleCount, trail, log>>

NextSteady ==
  \/ FarEndIdle /\ \E d \in Dev : ToggleLevel(d) /\ UNCHANGED <<lost, missed>>
  \/ FarEndIdle /\ \E d \in Dev : Receive(d) /\ UNCHANGED <<lost, missed>>
  \/ FarEndIdle /\ \E d \in Dev : Run(d) /\ UNCHANGED <<lost, missed>>
  \/ FarEndIdle /\ \E d \in Dev : InjectSteady(d) /\ UNCHANGED <<lost, missed>>
  \/ FarEndIdle /\ LongTick /\ UNCHANGED <<lost, missed>>
  \/ \E d \in Dev : Drain(d) /\ UNCHANGED <<lost, missed>>

SpecSteady == InitSteady /\ [][NextSteady]_vars

(***************************************************************************)
(* The two devices on a link that loses one handshake frame: the buttons   *)
(* are pressed a few times, then the link drops the PG, ACK, AKEY or BKEY  *)
(* that the sender's current session printed (initiate, lines 160-170;     *)
(* processMessage, lines 172-228), and no button is pressed afterwards.    *)
(***************************************************************************)
MaxPresses == 3      \* presses of each button before the loss

FrameKinds == {"PG", "ACK", "AKEY", "BKEY"}

\* the literal a frame of the kind starts with
KindPrefix(kind) ==
  CASE kind = "PG" -> STR_PG
    [] kind = "ACK" -> STR_ACK
    [] kind = "AKEY" -> STR_AKEY
    [] kind = "BKEY" -> STR_BKEY

\* who prints a frame of the kind: initiate and the ACK branch run on the
\* Initiator, the PG and AKEY branches on the Responder
KindSender(kind) == IF kind \in {"PG", "AKEY"} THEN "alice" ELSE "bob"

\* the state the sender enters as it prints a frame of the kind
KindState(kind) ==
  CASE kind = "PG" -> SENT_PG
    [] kind = "ACK" -> RECEIVED_ACK
    [] kind = "AKEY" -> RECEIVED_ACK
    [] kind = "BKEY" -> RECEIVED_B_PREKEY

\* the states of the current session of a device: its trail after the last IDLE
RECURSIVE SinceIdle(_)
SinceIdle(tr) ==
  IF tr = <<>> \/ Last(tr) = IDLE THEN {}
  ELSE {Last(tr)} \cup SinceIdle(SubSeq(tr, 1, Len(tr) - 1))

IsKind(frame, kind) ==
  frame.from = KindSender(kind) /\ startsWith(frame.line, KindPrefix(kind))

\* the buffer without its i-th line
Without(q, i) == SubSeq(q, 1, i - 1) \o SubSeq(q, i + 1, Len(q))

\* the button of d is pressed; the link has lost nothing yet
Press(d) ==
  /\ lost.kind = "none"
  /\ lost.presses[d] < MaxPresses
  /\ ToggleLevel(d)
  /\ lost' = [lost EXCEPT !.presses[d] = @ + 1]

\* The link drops the frame of the kind that the sender printed in its
\* current session.  The link is a FIFO and a session prints a kind once, so
\* that frame is the last one of its kind still waiting.
Lose(kind) ==
  /\ lost.kind = "none"
  /\ KindState(kind) \in SinceIdle(trail[KindSender(kind)])
  /\ \E i \in 1 .. Len(inbox[Peer(KindSender(kind))]) :
       /\ IsKind(inbox[Peer(KindSender(kind))][i], kind)
       /\ \A j \in i + 1 .. Len(inbox[Peer(KindSender(kind))]) :
            ~IsKind(inbox[Peer(KindSender(kind))][j], kind)
       /\ inbox' = [inbox EXCEPT ![Peer(KindSender(kind))] = Without(@, i)]
  /\ lost' = [lost EXCEPT !.kind = kind]
  /\ UNCHANGED <<level, dh, agent, pc, shown, got, now, charSigned, divZero, calc,
                 toggleCount, trail, log>>

NextLossy ==
  \/ \E d \in Dev : Press(d) /\ UNCHANGED missed
  \/ \E d \in Dev : Receive(d) /\ UNCHANGED <<lost, missed>>
  \/ \E d \in Dev : Run(d) /\ UNCHANGED <<lost, missed>>
  \/ Tick /\ UNCHANGED <<lost, missed>>
  \/ \E kind \in FrameKinds : Lose(kind) /\ UNCHANGED missed

SpecLossy == Init /\ [][NextLossy]_vars

(***************************************************************************)
(* The two devices on the reliable link, the buttons pressed a few times   *)
(* in any order: the Responder may still be in Cleartext mode when the     *)
(* Initiator's PG arrives (onReceive, lines 268-270).                      *)
(***************************************************************************)
MaxLatePresses == 2  \* presses of each button

\* onReceive of d is about to display, in Cleartext mode, the PG that the
\* Initiator printed in its current session (the last PG waiting: the link
\* is a FIFO and a session prints one PG)
ShowsCurrentPG(d) ==
  /\ ~IsAlice(d)
  /\ level[d] = LEVEL0
  /\ inbox[d] # <<>>
  /\ IsKind(Head(inbox[d]), "PG")
  /\ \A j \in 2 .. Len(inbox[d]) : ~IsKind(inbox[d][j], "PG")
  /\ SENT_PG \in SinceIdle(trail[Peer(d)])

\* a press, counted as in Press; a press of the Initiator starts afresh
PressLate(d) ==
  /\ lost.presses[d] < MaxLatePresses
  /\ Press(d)
  /\ missed' = IF IsAlice(d) THEN FALSE ELSE missed

ReceiveLate(d) ==
  /\ Receive(d)
  /\ missed' = (missed \/ ShowsCurrentPG(d))
  /\ UNCHANGED lost

NextLate ==
  \/ \E d \in Dev : PressLate(d)
  \/ \E d \in Dev : ReceiveLate(d)
  \/ \E d \in Dev : Run(d) /\ UNCHANGED <<lost, missed>>
  \/ Tick /\ UNCHANGED <<lost, missed>>

SpecLate == Init /\ [][NextLate]_vars

(***************************************************************************)
(* Properties                                                              *)
(***************************************************************************)
Complete(d) == dh[d].state = RECEIVED_B_PREKEY

\* the step of d that is onReceive reading a line
RecvStep(d) == pc[d] \in {"top", "recv"} /\ pc'[d] = "run" /\ inbox[d] # <<>>
RecvLine(d) == Head(inbox[d]).line

\* d printed nothing in the step
NothingSent(d) == inbox'[Peer(d)] = inbox[Peer(d)]

\* C1: whenever both peers are Complete they hold the same shared secret,
\* under every interleaving of loop steps, deliveries and toggles.
C1_SameSecret ==
  (Complete("alice") /\ Complete("bob")) => dh["alice"].sharedKey = dh["bob"].sharedKey

\* C2: with one toggle per device (both went to Secured once, no toggle
\* afterwards) and a loss-free link, when both peers are Complete the
\* Responder went IDLE -> RECEIVED_ACK -> RECEIVED_B_PREKEY, the Initiator
\* IDLE -> SENT_PG -> RECEIVED_ACK -> RECEIVED_B_PREKEY, and both hold
\* modExp(modExp(g, a, p), b, p) for the Initiator's scalar a and the
\* Responder's scalar b.
C2_HandshakePath ==
  (toggleCount = [d \in Dev |-> 1] /\ Complete("alice") /\ Complete("bob")) =>
    /\ trail["bob"] = <<IDLE, RECEIVED_ACK, RECEIVED_B_PREKEY>>
    /\ trail["alice"] = <<IDLE, SENT_PG, RECEIVED_ACK, RECEIVED_B_PREKEY>>
    /\ dh["alice"].sharedKey =
         modExp(modExp(DH_G, dh["alice"].privateKey, DH_P), dh["bob"].privateKey, DH_P)
    /\ dh["bob"].sharedKey = dh["alice"].sharedKey

C2_Witness ==
  /\ toggleCount = [d \in Dev |-> 1]
  /\ Complete("alice") /\ Complete("bob")
  /\ dh["alice"].privateKey = 7 /\ dh["bob"].privateKey = 11
  /\ dh["alice"].p = 2089 /\ dh["bob"].g = 2
  /\ dh["bob"].sharedKey = modExp(modExp(2, 7, 2089), 11, 2089)

\* a frame kind the role of d itself sends, so one its peer never sends it
OwnRoleFrame(d, line) ==
  IF IsAlice(d)
  THEN startsWith(line, STR_PG) \/ startsWith(line, STR_AKEY)
  ELSE startsWith(line, STR_ACK) \/ startsWith(line, STR_BKEY)

\* C3: role guard: an ACK or BKEY read by the Responder, a PG or AKEY read by
\* the Initiator, in any handshake state and at any level, leaves the whole
\* DiffieHellmanManager unchanged and prints nothing.
C3_RoleGuard ==
  [][\A d \in Dev :
       (RecvStep(d) /\ OwnRoleFrame(d, RecvLine(d))) =>
         (dh'[d] = dh[d] /\ NothingSent(d))]_vars

C3_Witness ==
  \E d \in Dev :
    /\ pc[d] = "run" /\ level[d] = LEVEL1
    /\ got[d] # <<>> /\ OwnRoleFrame(d, got[d][1])
    /\ dh[d].state = RECEIVED_ACK

\* C4: on every device, a shared key is available exactly when the handshake
\* state is RECEIVED_B_PREKEY.
C4_AvailableIffComplete ==
  \A d \in Dev : isSharedKeyAvailable(dh[d]) <=> Complete(d)

C4_Witness ==
  \E d \in Dev : toggleCount[d] = 2 /\ Complete(d) /\ isSharedKeyAvailable(dh[d])

C6_ToggleResets ==
  \A d \in Dev :
    pc[d] = "recv" =>
      /\ dh[d].state = IDLE
      /\ ~isSharedKeyAvailable(dh[d])
      /\ agent[d].sequenceNumber = 1
      /\ agent[d].lastSendTime = 0
      /\ ~agent[d].dhInitiated
      /\ ~agent[d].testMessagesSent

\* a toggle back to LEVEL0 after a session of the device that produced a key
C6_Witness ==
  \E d \in Dev :
    /\ pc[d] = "recv" /\ level[d] = LEVEL0
    /\ getSharedKey(dh[d]) # 0 /\ dh[d].state = IDLE

\* C7: at LEVEL1, a line that is no control frame, read while the handshake
\* state is not RECEIVED_B_PREKEY, displays exactly "Shared key not
\* available", leaves the manager unchanged and prints nothing.
C7_KeyUnavailable ==
  [][\A d \in Dev :
       (RecvStep(d) /\ level[d] = LEVEL1 /\ ~IsControl(RecvLine(d)) /\ ~Complete(d)) =>
         /\ shown'[d] = <<STR_NOKEY>>
         /\ dh'[d] = dh[d]
         /\ NothingSent(d)]_vars

C7_Witness ==
  \E d \in Dev :
    /\ pc[d] = "run" /\ level[d] = LEVEL1 /\ ~Complete(d)
    /\ got[d] # <<>> /\ ~IsControl(got[d][1])
    /\ shown[d] = <<STR_NOKEY>>

\* C8: at LEVEL0 every line read, control frames included, is displayed as
\* "Recv: " followed by the line as read, and the manager is unchanged and
\* nothing is printed.
C8_CleartextBypass ==
  [][\A d \in Dev :
       (RecvStep(d) /\ level[d] = LEVEL0) =>
         /\ shown'[d] = <<STR_RECV \o RecvLine(d)>>
         /\ dh'[d] = dh[d]
         /\ NothingSent(d)]_vars

C8_Witness ==
  \E d \in Dev :
    /\ pc[d] = "run" /\ level[d] = LEVEL0
    /\ got[d] # <<>> /\ IsControl(got[d][1]) /\ ~OwnRoleFrame(d, got[d][1])
    /\ shown[d] = <<STR_RECV \o got[d][1]>>

\* C9: every line on the link that the Initiator printed is neither an ACK
\* nor a BKEY frame, and every line the Responder printed is neither a PG nor
\* an AKEY frame.
C9_RoleOfSender ==
  \A d \in Dev : \A i \in 1 .. Len(inbox[d]) :
    LET f == inbox[d][i]
    IN  /\ f.from = "alice" =>
             ~(startsWith(f.line, STR_ACK) \/ startsWith(f.line, STR_BKEY))
        /\ f.from = "bob" =>
             ~(startsWith(f.line, STR_PG) \/ startsWith(f.line, STR_AKEY))

C9_Witness ==
  \E d \in Dev : \E i \in 1 .. Len(inbox[d]) :
    \/ inbox[d][i].from = "bob" /\ startsWith(inbox[d][i].line, STR_BKEY)
    \/ inbox[d][i].from = "alice" /\ startsWith(inbox[d][i].line, STR_AKEY)

\* C10: a control frame read while the state is RECEIVED_B_PREKEY, in either
\* role, leaves the state and the shared secret as they are and prints
\* nothing.
C10_CompleteIgnores ==
  [][\A d \in Dev :
       (RecvStep(d) /\ Complete(d) /\ IsControl(RecvLine(d))) =>
         /\ dh'[d].state = RECEIVED_B_PREKEY
         /\ dh'[d].sharedKey = dh[d].sharedKey
         /\ isSharedKeyAvailable(dh'[d])
         /\ NothingSent(d)]_vars

C10_Witness ==
  \E d \in Dev :
    /\ pc[d] = "run" /\ Complete(d)
    /\ got[d] # <<>> /\ startsWith(got[d][1], STR_PG)

\* the role and state of d are those in which processMessage accepts a
\* well-formed frame of the kind of line, and d is at the level where
\* onReceive hands control frames to processMessage
Accepts(d, line) ==
  /\ level[d] = LEVEL1
  /\ IF startsWith(line, STR_PG) THEN ~IsAlice(d) /\ dh[d].state = IDLE
     ELSE IF startsWith(line, STR_AKEY) THEN ~IsAlice(d) /\ dh[d].state = RECEIVED_ACK
     ELSE startsWith(line, STR_BKEY) /\ IsAlice(d) /\ dh[d].state = RECEIVED_ACK

\* C11: a control frame with a malformed payload (PG with a non-numeric field
\* or no comma, AKEY or BKEY with a non-numeric value), read where a
\* well-formed frame of its kind would be accepted, is dropped: the handshake
\* state does not change, nothing is sent, no parameter is stored and no
\* shared secret becomes available.
C11_MalformedDropped ==
  [][\A d \in Dev :
       (RecvStep(d) /\ RecvLine(d) \in MalformedFrames /\ Accepts(d, RecvLine(d))) =>
         (dh'[d] = dh[d] /\ NothingSent(d))]_vars

\* C12 as claimed: for every byte sequence S and every key in 0 .. 255,
\* decrypting the encryption of S under the same key gives S back.
C12_RoundTrip ==
  (calc.op = "cipher" /\ calc.stage = 2) => calc.text = calc.S

\* C12 amended: the round trip gives S back for every sequence S of bytes
\* other than NUL and every key in 0 .. 255; of a sequence that holds a NUL
\* it gives back the bytes before the first NUL.
C12_RoundTripText ==
  (calc.op = "cipher" /\ calc.stage = 2) =>
    /\ calc.text = CStr(calc.S)
    /\ (\A i \in 1 .. Len(calc.S) : calc.S[i] # 0) => calc.text = calc.S

C12_Witness ==
  /\ calc.op = "cipher" /\ calc.stage = 2
  /\ charSigned /\ calc.key = 255
  /\ calc.S = <<128, 48>> /\ calc.tokens = <<49, 50, 55, 32, 45, 52, 57, 32>>
  /\ calc.text = <<128, 48>>

\* C13: for every prime p with primitive root g and all private scalars a, b
\* in [2, p - 2], modExp(modExp(g, a, p), b, p) = modExp(modExp(g, b, p), a, p).
C13_Symmetry ==
  (calc.op = "exchange" /\ calc.done) => calc.keyOfB = calc.keyOfA

\* base^exponent mod modulus in unbounded arithmetic, for 0 <= a, b < m: the
\* sum, the product and the power are formed without leaving 0 .. m - 1
AddMod(a, b, m) == IF a >= m - b THEN a - (m - b) ELSE a + b

RECURSIVE MulMod(_, _, _)
MulMod(a, b, m) ==
  IF b = 0 THEN 0
  ELSE LET half == MulMod(a, b \div 2, m)
           twice == AddMod(half, half, m)
       IN  IF b % 2 = 1 THEN AddMod(twice, a, m) ELSE twice

RECURSIVE PowMod(_, _, _)
PowMod(base, exponent, m) ==
  IF exponent = 0 THEN 1 % m
  ELSE MulMod(base % m, PowMod(base, exponent - 1, m), m)

\* C20: for base >= 0, exponent >= 0 and modulus >= 1, modExp returns a value
\* of 0 .. modulus - 1 that is base^exponent mod modulus, and 1 when the
\* exponent is 0.
C20_ModExpContract ==
  (calc.op = "modExp" /\ calc.done) =>
    /\ calc.result \in 0 .. calc.modulus - 1
    /\ calc.result = PowMod(calc.base, calc.exponent, calc.modulus)
    /\ calc.exponent = 0 => calc.result = 1

\* the text a payload line of d's log carries, read with d's key
Deciphered(d, line) == decryptMessage(dh[d], line)

\* the first two lines of d's log are its scripted pair: for Alice the
\* passthrough "Plain_Message_1" then the ciphered "Enc_Message_2", for Bob
\* the ciphered "Enc_Message_1" then the passthrough "Plain_Message_2"
PairSent(d) ==
  /\ Len(log[d]) >= 2
  /\ IF IsAlice(d)
     THEN log[d][1] = println(STR_PLAIN1) /\ Deciphered(d, log[d][2]) = STR_ENC2
     ELSE Deciphered(d, log[d][1]) = STR_ENC1 /\ log[d][2] = println(STR_PLAIN2)

\* C14: in a Secured-mode session nothing is sent before the key is available;
\* the scripted pair is sent in the first run() that finds the key available,
\* whatever the time since the last send; it is sent once; every later line
\* is a ciphered steady-state message, the k-th of them carrying number k.
C14_ScriptedThenSteady ==
  \A d \in Dev :
    level[d] = LEVEL1 =>
      /\ log[d] # <<>> => (isSharedKeyAvailable(dh[d]) /\ PairSent(d))
      /\ (pc[d] = "top" /\ isSharedKeyAvailable(dh[d])) => PairSent(d)
      /\ \A i \in 3 .. Len(log[d]) :
           Deciphered(d, log[d][i]) =
             (IF IsAlice(d) THEN STR_NEW ELSE STR_REP) \o StringOf(i - 2)

C14_Witness ==
  \E d \in Dev :
    /\ level[d] = LEVEL1 /\ pc[d] = "top" /\ Len(log[d]) = 4
    /\ agent[d].sequenceNumber = 3
    /\ Deciphered(d, log[d][4]) = (IF IsAlice(d) THEN STR_NEW ELSE STR_REP) \o <<50>>

\* C15: every step the Responder takes while its level is LEVEL0 leaves the
\* link as it is, whatever line it reads and whatever the clock shows; the
\* lines the Initiator sends in a LEVEL0 session are "Message 1",
\* "Message 2", ... in this order.
C15_CleartextSenders ==
  [][\A d \in Dev :
       /\ (~IsAlice(d) /\ level[d] = LEVEL0 /\ pc'[d] # pc[d]) =>
            (NothingSent(d) /\ log'[d] = <<>>)
       /\ (IsAlice(d) /\ level'[d] = LEVEL0) =>
            \A i \in 1 .. Len(log'[d]) :
              log'[d][i] = println(STR_MESSAGE \o StringOf(i))]_vars

C15_Witness ==
  \E d \in Dev :
    /\ ~IsAlice(d) /\ level[d] = LEVEL0 /\ toggleCount[d] = 2
    /\ pc[d] = "run" /\ got[d] # <<>> /\ IsControl(got[d][1])
    /\ now = BootMillis + MaxSteadyTicks * ClockStep

\* the device d prints a frame of the kind in the step
Prints(d, kind) ==
  /\ d = KindSender(kind)
  /\ Len(inbox'[Peer(d)]) > 0
  /\ inbox'[Peer(d)] # inbox[Peer(d)]
  /\ Len(inbox'[Peer(d)]) >= Len(inbox[Peer(d)])
  /\ IsKind(Last(inbox'[Peer(d)]), kind)

\* C16: once a handshake frame of the current session is lost and no button
\* is pressed, the lost kind is never printed again, the Initiator never
\* becomes Complete, and no device goes back to IDLE (the reset that ends the
\* loop() iteration of an earlier press aside).
C16_LossStalls ==
  [][lost.kind # "none" =>
       /\ \A d \in Dev : ~Prints(d, lost.kind)
       /\ dh'["alice"].state = RECEIVED_B_PREKEY => dh["alice"].state = RECEIVED_B_PREKEY
       /\ \A d \in Dev :
            dh[d].state # IDLE /\ dh'[d].state = IDLE => ~agent[d].dhInitiated]_vars

\* the step of d that is the toggle block of loop()
ToggleStep(d) == pc[d] = "top" /\ pc'[d] = "recv"

\* C17: a device starts at LEVEL0, its level is always LEVEL0 or LEVEL1,
\* every toggle switches it to the other of the two, nothing else changes
\* it, and LEVEL2 is never reached.
C17_TwoLevels ==
  /\ \A d \in Dev : level[d] = LEVEL0
  /\ [][\A d \in Dev :
          /\ level'[d] \in {LEVEL0, LEVEL1}
          /\ level'[d] # LEVEL2
          /\ ToggleStep(d) => /\ level[d] = LEVEL0 => level'[d] = LEVEL1
                              /\ level[d] = LEVEL1 => level'[d] = LEVEL0
          /\ ~ToggleStep(d) => level'[d] = level[d]]_vars

\* a device was toggled at least twice and is back at LEVEL0
C17_Witness ==
  \E d \in Dev : toggleCount[d] = 2 /\ level[d] = LEVEL0 /\ pc[d] = "recv"

\* the step of d that is alice->run or bob->run
RunStep(d) == pc[d] = "run" /\ pc'[d] = "top"

\* a line as sendEncrypted prints it: decimal codes, each followed by a space
IsCipherLine(line) ==
  /\ \E i \in 1 .. Len(line) : line[i] = CH_SPACE
  /\ \A i \in 1 .. Len(line) : IsDigit(line[i]) \/ line[i] \in {CH_SPACE, CH_MINUS, CH_CR}

\* run() of d printed an encrypted line in the step
EncryptStep(d) ==
  /\ RunStep(d)
  /\ \E i \in Len(inbox[Peer(d)]) + 1 .. Len(inbox'[Peer(d)]) :
       IsCipherLine(inbox'[Peer(d)][i].line)

\* onReceive of d displayed a decrypted payload in the step
DecryptStep(d) ==
  /\ RecvStep(d)
  /\ level[d] = LEVEL1
  /\ IsPayload(RecvLine(d))
  /\ shown'[d] # <<>>
  /\ startsWith(shown'[d][1], STR_RECV)

\* C18: a device encrypts or decrypts only while its shared key is
\* available, that is, only while its handshake is Complete.
C18_CipherNeedsKey ==
  [][\A d \in Dev :
       EncryptStep(d) \/ DecryptStep(d) =>
         /\ isSharedKeyAvailable(dh[d])
         /\ Complete(d)
         /\ isSharedKeyAvailable(dh'[d])]_vars

\* a Complete device has printed an encrypted line and has just decrypted one
C18_Witness ==
  \E d \in Dev :
    /\ pc[d] = "run"
    /\ level[d] = LEVEL1
    /\ Complete(d)
    /\ \E i \in 1 .. Len(log[d]) : IsCipherLine(log[d][i])
    /\ got[d] # <<>>
    /\ IsPayload(got[d][1])
    /\ shown[d] # <<>>
    /\ startsWith(shown[d][1], STR_RECV)

\* p or g of d has another value after the step
ParamsChange(d) == dh'[d].p # dh[d].p \/ dh'[d].g # dh[d].g

\* C19: p and g of a device change only in a step that starts in IDLE and
\* leaves it (the Initiator's run() calling initiate, the Responder's
\* onReceive reading a PG), so at most once between two resets; the
\* Initiator prints PG only from IDLE; a PG read in any later state leaves
\* the manager as it is.
C19_ParamsOncePerSession ==
  [][\A d \in Dev :
       /\ ParamsChange(d) =>
            /\ dh[d].state = IDLE
            /\ dh'[d].state # IDLE
            /\ IF IsAlice(d)
               THEN RunStep(d) /\ dh'[d].state = SENT_PG
                    /\ dh'[d].p = DH_P /\ dh'[d].g = DH_G
               ELSE RecvStep(d) /\ startsWith(RecvLine(d), STR_PG)
                    /\ dh'[d].state = RECEIVED_ACK
       /\ Prints(d, "PG") => dh[d].state = IDLE /\ dh'[d].state = SENT_PG
       /\ RecvStep(d) /\ startsWith(RecvLine(d), STR_PG) /\ dh[d].state # IDLE =>
            dh'[d] = dh[d]]_vars

\* the Responder holds the parameters of the first PG and has just read a
\* PG with other parameters in a later state of the same session
C19_Witness ==
  /\ pc["bob"] = "run"
  /\ dh["bob"].state \in {RECEIVED_ACK, RECEIVED_B_PREKEY}
  /\ dh["bob"].p = DH_P
  /\ dh["bob"].g = DH_G
  /\ got["bob"] = <<println(STR_PG \o StringOf(23) \o <<CH_COMMA>> \o StringOf(5))>>

\* C25: the state of a handshake is always IDLE, SENT_PG, RECEIVED_ACK or
\* RECEIVED_B_PREKEY and never SENT_A_PREKEY; SENT_PG occurs on the
\* Initiator only; the Initiator is in RECEIVED_ACK after it printed AKEY.
C25_PreKeySentUnreachable ==
  /\ [](\A d \in Dev :
          /\ dh[d].state \in {IDLE, SENT_PG, RECEIVED_ACK, RECEIVED_B_PREKEY}
          /\ dh[d].state # SENT_A_PREKEY
          /\ dh[d].state = SENT_PG => IsAlice(d))
  /\ [][\A d \in Dev : Prints(d, "AKEY") =>
          dh[d].state = SENT_PG /\ dh'[d].state = RECEIVED_ACK]_vars

\* the Initiator has just read ACK and printed AKEY
C25_Witness ==
  /\ pc["alice"] = "run"
  /\ got["alice"] = <<println(STR_ACK)>>
  /\ dh["alice"].state = RECEIVED_ACK
  /\ inbox["bob"] # <<>>
  /\ IsKind(Last(inbox["bob"]), "AKEY")

\* the states d has been in since its last toggle
Visited(d) == {trail[d][i] : i \in 1 .. Len(trail[d])}

\* C24: between two toggles a device prints each kind of handshake frame at
\* most once.  A frame of a kind is printed exactly as its sender enters
\* KindState of the kind, so a device that prints one must not have been in
\* that state since its last toggle.
C24_OncePerSession ==
  [][\A d \in Dev : \A kind \in FrameKinds :
       Prints(d, kind) /\ ~ToggleStep(d) => KindState(kind) \notin Visited(d)]_vars

SessionPayload(frame) ==
  /\ frame.from \in Dev
  /\ level[frame.from] = LEVEL1
  /\ IsPayload(frame.line)
  /\ \E i \in 1 .. Len(log[frame.from]) : log[frame.from][i] = frame.line

\* C21: in a session without a toggle the Responder is Complete whenever the
\* Initiator is, and is so first; a payload of the session waits behind the
\* BKEY of its sender unless the Initiator is Complete already; a peer that
\* reads a payload of the session is Complete and does not display
\* "Shared key not available".
C21_ResponderFirst ==
  /\ [](/\ Complete("alice") => Complete("bob")
        /\ \A i \in 1 .. Len(inbox["alice"]) :
             SessionPayload(inbox["alice"][i]) =>
               \/ Complete("alice")
               \/ \E j \in 1 .. i - 1 : IsKind(inbox["alice"][j], "BKEY"))
  /\ [][\A d \in Dev :
          /\ Complete(d)' /\ ~Complete(d) /\ IsAlice(d) => Complete(Peer(d))
          /\ RecvStep(d) /\ SessionPayload(Head(inbox[d])) =>
               /\ Complete(d)
               /\ shown'[d] # <<STR_NOKEY>>]_vars

\* the Initiator is not Complete yet: BKEY waits in its buffer with the
\* Responder's scripted pair behind it
C21_Witness ==
  /\ ~Complete("alice")
  /\ Complete("bob")
  /\ Len(inbox["alice"]) = 3
  /\ IsKind(inbox["alice"][1], "BKEY")
  /\ SessionPayload(inbox["alice"][2])
  /\ SessionPayload(inbox["alice"][3])

\* CanReceive(d) is the guard of Receive(d): a reply of the length
\* processMessage gives it fits into the peer's buffer
CanReceiveIsGuard ==
  \A d \in Dev :
    CanReceive(d) <=>
      /\ pc[d] \in {"top", "recv"}
      /\ inbox[d] # <<>> =>
           \E rnd \in Draws(d) :
             Len(inbox[Peer(d)])
               + Len(onReceive(dh[d], Head(inbox[d]).line, IsAlice(d), level[d], rnd).out)
               <= MaxQueue

\* both buttons have been pressed (no toggle is left in the session) and
\* the Responder, in Secured mode and IDLE, has just accepted the PG
PGAccepted ==
  /\ toggleCount["alice"] = 1
  /\ toggleCount["bob"] = 1
  /\ level["bob"] = LEVEL1
  /\ pc["bob"] = "run"
  /\ got["bob"] # <<>>
  /\ startsWith(got["bob"][1], STR_PG)
  /\ dh["bob"].state = RECEIVED_ACK
  /\ IDLE = Last(SubSeq(trail["bob"], 1, Len(trail["bob"]) - 1))

BothDone ==
  \A d \in Dev : Complete(d) /\ agent[d].testMessagesSent

\* C22: once the Responder, in Secured mode and IDLE, has accepted the PG
\* and no toggle follows, both peers are eventually Complete and have sent
\* their scripted pair.
C22_EventuallyComplete == PGAccepted ~> BothDone

====
